---------------------------- MODULE Spec2Model ----------------------------
(***************************************************************************)
(* CalmBot (src/ai_calmbot.py): a rule-based responder.  reply(user_text)  *)
(* runs the safety check, captures a name, routes through the ordered      *)
(* keyword rules and prefixes the captured name.                           *)
(*                                                                         *)
(* A Python str is modelled as a sequence of characters, each character a  *)
(* one-character string; a character outside printable ASCII is written    *)
(* by its code point ("U+2026" is the horizontal ellipsis).                *)
(***************************************************************************)
EXTENDS Integers, Sequences, FiniteSets, TLC

VARIABLES
    ctx,        \* bot -> [name, last_topics]: CalmBot.ctx of each conversation
    pre,        \* bot -> CalmBot.ctx as it was when the latest reply call began
    inputs,     \* bot -> the user_text arguments of the reply calls made so far
    ret,        \* bot -> the string the latest reply call returned
    norm_in,    \* the argument given to normalize
    norm_out,   \* the results of normalize applied once, twice, ...
    box_in,     \* [cycles, seconds, realtime]: the arguments of box_breathing
    box_out,    \* the string box_breathing returned
    slept       \* seconds spent in time.sleep by box_breathing

vars == <<ctx, pre, inputs, ret, norm_in, norm_out, box_in, box_out, slept>>

---------------------------------------------------------------------------
\* Bounds of the model.

\* reply calls per conversation
MaxCalls == 3
\* reply calls per conversation when two conversations run side by side
MaxPairCalls == 3
\* length of the strings given to normalize
MaxLen == 5
\* largest cycles argument given to box_breathing
MaxCycles == 4
\* largest seconds argument given to box_breathing
MaxSeconds == 5

---------------------------------------------------------------------------
\* Characters and strings.

UpperCase == <<"A","B","C","D","E","F","G","H","I","J","K","L","M","N","O","P","Q","R","S","T",
               "U","V","W","X","Y","Z">>
LowerCase == <<"a","b","c","d","e","f","g","h","i","j","k","l","m","n","o","p","q","r","s","t",
               "u","v","w","x","y","z">>
Digits == <<"0","1","2","3","4","5","6","7","8","9">>

Range(s) == {s[i] : i \in DOMAIN s}

SpaceChars == {" ", "\t", "\n", "\r", "\f", "U+000B"}
UpperChars == Range(UpperCase)
LowerChars == Range(LowerCase)
AlphaChars == UpperChars \cup LowerChars
WordChars == AlphaChars \cup Range(Digits) \cup {"_"}

\* str.isspace / the regex class \s
is_space(c) == c \in SpaceChars

\* the regex class [a-zA-Z]
is_alpha(c) == c \in AlphaChars

\* the regex class \w
is_word(c) == c \in WordChars

lower_char(c) ==
    IF c \in UpperChars
    THEN LowerCase[CHOOSE i \in DOMAIN UpperCase : UpperCase[i] = c]
    ELSE c

upper_char(c) ==
    IF c \in LowerChars
    THEN UpperCase[CHOOSE i \in DOMAIN LowerCase : LowerCase[i] = c]
    ELSE c

\* str.lower
lower(s) == [i \in DOMAIN s |-> lower_char(s[i])]

\* str.capitalize: first character upper-cased, the rest lower-cased
capitalize(s) ==
    IF s = <<>> THEN <<>> ELSE <<upper_char(s[1])>> \o lower(Tail(s))

RECURSIVE lstrip(_)
lstrip(s) ==
    IF s # <<>> /\ is_space(s[1]) THEN lstrip(Tail(s)) ELSE s

RECURSIVE rstrip(_)
rstrip(s) ==
    IF s # <<>> /\ is_space(s[Len(s)]) THEN rstrip(SubSeq(s, 1, Len(s) - 1)) ELSE s

\* str.strip()
strip(s) == rstrip(lstrip(s))

\* re.sub(r"\s+", " ", s): every maximal run of whitespace becomes one space
RECURSIVE collapse_ws(_)
collapse_ws(s) ==
    IF s = <<>> THEN <<>>
    ELSE IF is_space(s[1]) THEN <<" ">> \o collapse_ws(lstrip(s))
    ELSE <<s[1]>> \o collapse_ws(Tail(s))

\* str.replace("  ", " "): non-overlapping pairs of spaces, left to right
RECURSIVE replace_pairs(_)
replace_pairs(s) ==
    IF Len(s) < 2 THEN s
    ELSE IF s[1] = " " /\ s[2] = " " THEN <<" ">> \o replace_pairs(Tail(Tail(s)))
    ELSE <<s[1]>> \o replace_pairs(Tail(s))

\* normalize written with str.replace in place of the regex
normalize_replace_pairs(text) == replace_pairs(lower(strip(text)))

normalize(text) == collapse_ws(lower(strip(text)))

\* `w in text` for strings; re.search(p, text) for a pattern p of literals
contains(text, w) ==
    \E i \in 1..(Len(text) - Len(w) + 1) : \A j \in DOMAIN w : text[i + j - 1] = w[j]

contains_any(text, words) == \E k \in DOMAIN words : contains(text, words[k])

\* "\n".join(lines)
RECURSIVE join_lines(_)
join_lines(lines) ==
    IF lines = <<>> THEN <<>>
    ELSE IF Len(lines) = 1 THEN lines[1]
    ELSE lines[1] \o <<"\n">> \o join_lines(Tail(lines))

\* str(n) for an integer n, as an f-string formats it
RECURSIVE nat_str(_)
nat_str(n) ==
    IF n < 10 THEN <<Digits[n + 1]>>
    ELSE nat_str(n \div 10) \o <<Digits[(n % 10) + 1]>>

int_str(n) == IF n < 0 THEN <<"-">> \o nat_str(0 - n) ELSE nat_str(n)

---------------------------------------------------------------------------
\* Exercises.

BoxSteps == <<<<"I","n","h","a","l","e">>, <<"H","o","l","d">>, <<"E","x","h","a","l","e">>, <<"H","o","l","d">>>>

\* f"Cycle {i}:"
cycle_line(i) == <<"C","y","c","l","e"," ">> \o int_str(i) \o <<":">>

\* f"  {step} for {seconds}<U+2026>"
step_line(step, seconds) ==
    <<" "," ">> \o step \o <<" ","f","o","r"," ">> \o int_str(seconds) \o <<"U+2026">>

\* the four step lines of one cycle
box_cycle_steps(seconds) == [k \in DOMAIN BoxSteps |-> step_line(BoxSteps[k], seconds)]

\* the body of `for i in range(first, last + 1)`: the lines appended and the
\* seconds slept, cycle after cycle
RECURSIVE box_cycles(_, _, _, _)
box_cycles(first, last, seconds, realtime) ==
    IF first > last THEN [lines |-> <<>>, slept |-> 0]
    ELSE LET rest == box_cycles(first + 1, last, seconds, realtime)
         IN  [lines |-> <<cycle_line(first)>> \o box_cycle_steps(seconds) \o rest.lines,
              slept |-> (IF realtime THEN Len(BoxSteps) * seconds ELSE 0) + rest.slept]

\* box_breathing with its loop written range(1, cycles): one cycle short
box_breathing_run_short(cycles, seconds, realtime) ==
    LET body == box_cycles(1, cycles - 1, seconds, realtime)
    IN  [text |-> join_lines(
                    <<<<"L","e","t","'","s"," ","t","r","y"," ","b","o","x"," ","b","r","e","a",
                        "t","h","i","n","g"," ","(","4"," ","s","t","e","p","s",")","."," ","W",
                        "e","'","l","l"," ","d","o"," ">>
                        \o int_str(cycles) \o <<" ","c","y","c","l","e","s",".">>>>
                    \o body.lines
                    \o <<<<"N","i","c","e"," ","w","o","r","k","."," ","N","o","t","i","c","e",
                           " ","a","n","y"," ","c","h","a","n","g","e"," ","i","n"," ","y","o",
                           "u","r"," ","b","o","d","y"," ","r","i","g","h","t"," ","n","o","w",
                           "?">>>>),
         slept |-> body.slept]

\* box_breathing: the string returned and the seconds spent in time.sleep
box_breathing_run(cycles, seconds, realtime) ==
    LET body == box_cycles(1, cycles, seconds, realtime)
    IN  [text |-> join_lines(
                    <<<<"L","e","t","'","s"," ","t","r","y"," ","b","o","x"," ","b","r","e","a",
                        "t","h","i","n","g"," ","(","4"," ","s","t","e","p","s",")","."," ","W",
                        "e","'","l","l"," ","d","o"," ">>
                        \o int_str(cycles) \o <<" ","c","y","c","l","e","s",".">>>>
                    \o body.lines
                    \o <<<<"N","i","c","e"," ","w","o","r","k","."," ","N","o","t","i","c","e",
                           " ","a","n","y"," ","c","h","a","n","g","e"," ","i","n"," ","y","o",
                           "u","r"," ","b","o","d","y"," ","r","i","g","h","t"," ","n","o","w",
                           "?">>>>),
         slept |-> body.slept]

box_breathing(cycles, seconds, realtime) == box_breathing_run(cycles, seconds, realtime).text

RECURSIVE fse_cycles(_, _)
fse_cycles(first, last) ==
    IF first > last THEN <<>>
    ELSE <<cycle_line(first),
           <<" "," ","I","n","h","a","l","e"," ","t","h","r","o","u","g","h"," ","y","o","u",
             "r"," ","n","o","s","e"," ","f","o","r"," ","4","U+2026">>,
           <<" "," ","H","o","l","d"," ","f","o","r"," ","7","U+2026">>,
           <<" "," ","E","x","h","a","l","e"," ","s","l","o","w","l","y"," ","t","h","r","o",
             "u","g","h"," ","y","o","u","r"," ","m","o","u","t","h"," ","f","o","r"," ","8",
             "U+2026">>>>
         \o fse_cycles(first + 1, last)

\* four_seven_eight(cycles, realtime=False): the string returned
four_seven_eight(cycles) ==
    join_lines(
        <<<<"W","e","'","l","l"," ","t","r","y"," ","t","h","e"," ","4","U+2013","7","U+2013",
            "8"," ","b","r","e","a","t","h","."," ","W","e","'","l","l"," ","d","o"," ">> \o int_str(cycles) \o <<" ","c","y","c",
                                                                               "l","e","s",".">>>>
        \o fse_cycles(1, cycles)
        \o <<<<"G","r","e","a","t","."," ","U","n","c","l","e","n","c","h"," ","y","o","u","r",
               " ","j","a","w"," ","a","n","d"," ","d","r","o","p"," ","y","o","u","r"," ","s",
               "h","o","u","l","d","e","r","s",".">>>>)

grounding_54321 ==
    <<"L","e","t","'","s"," ","d","o"," ","t","h","e"," ","5","-","4","-","3","-","2","-","1",
      " ","g","r","o","u","n","d","i","n","g"," ","e","x","e","r","c","i","s","e",":","\n">>
    \o <<" "," ","U+2022"," ","N","a","m","e"," ","5"," ","t","h","i","n","g","s"," ","y","o",
         "u"," ","c","a","n"," ","s","e","e","\n">>
    \o <<" "," ","U+2022"," ","4"," ","t","h","i","n","g","s"," ","y","o","u"," ","c","a","n",
         " ","f","e","e","l"," ","(","c","h","a","i","r",","," ","c","l","o","t","h","e","s",
         ","," ","a","i","r",")","\n">>
    \o <<" "," ","U+2022"," ","3"," ","t","h","i","n","g","s"," ","y","o","u"," ","c","a","n",
         " ","h","e","a","r","\n">>
    \o <<" "," ","U+2022"," ","2"," ","t","h","i","n","g","s"," ","y","o","u"," ","c","a","n",
         " ","s","m","e","l","l","\n">>
    \o <<" "," ","U+2022"," ","1"," ","t","h","i","n","g"," ","y","o","u"," ","c","a","n"," ",
         "t","a","s","t","e"," ","o","r"," ","a"," ","s","l","o","w"," ","s","i","p"," ","o",
         "f"," ","w","a","t","e","r","\n">>
    \o <<"T","y","p","e"," ","a"," ","f","e","w"," ","o","f"," ","y","o","u","r","s"," ","h",
         "e","r","e","U+2014","I","'","l","l"," ","l","i","s","t","e","n",".">>

mini_journal_prompt ==
    <<"M","i","n","i","-","j","o","u","r","n","a","l"," ","(","2"," ","m","i","n","s",")",":",
      "\n">>
    \o <<" "," ","1",")"," ","W","h","a","t"," ","h","a","p","p","e","n","e","d","?","\n">>
    \o <<" "," ","2",")"," ","W","h","a","t"," ","a","m"," ","I"," ","f","e","e","l","i","n",
         "g"," ","(","n","a","m","e"," ","i","t",")","?","\n">>
    \o <<" "," ","3",")"," ","W","h","a","t"," ","d","o"," ","I"," ","n","e","e","d"," ","r",
         "i","g","h","t"," ","n","o","w","?","\n">>
    \o <<" "," ","4",")"," ","O","n","e"," ","t","i","n","y"," ","n","e","x","t"," ","s","t",
         "e","p","?">>

---------------------------------------------------------------------------
\* Safety.

RISKY_PATTERNS == <<
    <<"k","i","l","l"," ","m","y","s","e","l","f">>,
    <<"s","u","i","c","i","d","e">>,
    <<"e","n","d"," ","m","y"," ","l","i","f","e">>,
    <<"s","e","l","f","-","h","a","r","m">>,
    <<"c","u","t"," ","m","y","s","e","l","f">>,
    <<"c","a","n","'","t"," ","g","o"," ","o","n">>,
    <<"n","o"," ","r","e","a","s","o","n"," ","t","o"," ","l","i","v","e">>,
    <<"h","u","r","t"," ","m","y","s","e","l","f">> >>

\* safety_check searching the text as typed, without normalizing it
safety_check_raw(text) ==
    \E k \in DOMAIN RISKY_PATTERNS : contains(text, RISKY_PATTERNS[k])

safety_check(text) ==
    LET t == normalize(text)
    IN  \E k \in DOMAIN RISKY_PATTERNS : contains(t, RISKY_PATTERNS[k])

SAFETY_MESSAGE ==
    <<"I","'","m"," ","r","e","a","l","l","y"," ","g","l","a","d"," ","y","o","u"," ","t","o",
      "l","d"," ","m","e","."," ","Y","o","u"," ","d","e","s","e","r","v","e"," ","s","u","p",
      "p","o","r","t"," ","r","i","g","h","t"," ","n","o","w",".","\n">>
    \o <<"U+2022"," ","I","f"," ","y","o","u","'","r","e"," ","i","n"," ","i","m","m","e","d",
         "i","a","t","e"," ","d","a","n","g","e","r"," ","o","r"," ","t","h","i","n","k","i",
         "n","g"," ","a","b","o","u","t"," ","h","u","r","t","i","n","g"," ","y","o","u","r",
         "s","e","l","f",":"," ","p","l","e","a","s","e"," ","c","o","n","t","a","c","t"," ",
         "l","o","c","a","l"," ","e","m","e","r","g","e","n","c","y"," ","s","e","r","v","i",
         "c","e","s",","," ","o","r"," ","r","e","a","c","h"," ","o","u","t"," ","t","o"," ",
         "s","o","m","e","o","n","e"," ","y","o","u"," ","t","r","u","s","t"," ","n","e","a",
         "r","b","y",".","\n">>
    \o <<"U+2022"," ","C","o","n","s","i","d","e","r"," ","c","o","n","t","a","c","t","i","n",
         "g"," ","a"," ","m","e","n","t","a","l","-","h","e","a","l","t","h"," ","p","r","o",
         "f","e","s","s","i","o","n","a","l"," ","o","r"," ","y","o","u","r"," ","c","a","m",
         "p","u","s"," ","c","o","u","n","s","e","l","i","n","g"," ","s","e","r","v","i","c",
         "e",".","\n">>
    \o <<"U+2022"," ","I","f"," ","a","v","a","i","l","a","b","l","e",","," ","c","a","l","l",
         " ","a"," ","n","a","t","i","o","n","a","l"," ","c","r","i","s","i","s"," ","h","e",
         "l","p","l","i","n","e"," ","i","n"," ","y","o","u","r"," ","c","o","u","n","t","r",
         "y","."," ","Y","o","u","'","r","e"," ","n","o","t"," ","a","l","o","n","e",".","\n">>
    \o <<"W","e"," ","c","a","n"," ","a","l","s","o"," ","k","e","e","p"," ","t","a","l","k",
         "i","n","g","."," ","W","o","u","l","d"," ","y","o","u"," ","l","i","k","e"," ","a",
         " ","g","r","o","u","n","d","i","n","g"," ","e","x","e","r","c","i","s","e"," ","o",
         "r"," ","j","u","s","t"," ","t","o"," ","v","e","n","t","?">>

---------------------------------------------------------------------------
\* Context and CalmBot.

\* Optional[str]'s None; no str, a sequence of characters, equals it
None == <<"None">>

\* Context(): name None, last_topics []
Context == [name |-> None, last_topics |-> <<>>]

\* self.handlers: (keywords, handler) in declaration order
handlers == <<
    [keys |-> <<<<"h","i">>, <<"h","e","l","l","o">>, <<"h","e","y">>, <<"g","o","o","d"," ","m","o","r","n","i",
                                                       "n","g">>,
                <<"g","o","o","d"," ","e","v","e","n","i","n","g">>>>,
     handler |-> "_handle_greeting"],
    [keys |-> <<<<"p","a","n","i","c">>, <<"a","n","x","i","o","u","s">>, <<"a","n","x","i","e","t","y">>, <<"o","v","e","r","w","h","e","l",
                                                                "m","e","d">>,
                <<"s","t","r","e","s","s","e","d">>, <<"s","t","r","e","s","s">>>>,
     handler |-> "_handle_stress"],
    [keys |-> <<<<"a","n","g","r","y">>, <<"f","r","u","s","t","r","a","t","e","d">>, <<"m","a","d">>, <<"i","r","r","i","t","a","t","e",
                                                               "d">>>>,
     handler |-> "_handle_anger"],
    [keys |-> <<<<"c","a","n","'","t"," ","s","l","e","e","p">>, <<"i","n","s","o","m","n","i","a">>, <<"s","l","e","e","p">>>>,
     handler |-> "_handle_sleep"],
    [keys |-> <<<<"g","r","o","u","n","d">>, <<"5","4","3","2","1">>, <<"f","o","c","u","s">>>>,
     handler |-> "_handle_grounding"],
    [keys |-> <<<<"b","r","e","a","t","h","e">>, <<"b","r","e","a","t","h","i","n","g">>, <<"b","o","x">>, <<"4","-","7","-","8">>, <<"4","7","8">>>>,
     handler |-> "_handle_breathing"],
    [keys |-> <<<<"j","o","u","r","n","a","l">>, <<"w","r","i","t","e">>, <<"t","h","o","u","g","h","t","s">>>>,
     handler |-> "_handle_journal"],
    [keys |-> <<<<"h","e","l","p">>, <<"c","o","m","m","a","n","d","s">>, <<"m","e","n","u">>>>,
     handler |-> "_handle_help"] >>

\* A handler returns the Response (intent, message).  self is the bot's ctx.

GreetingMessage ==
    <<"H","i",","," ","I","'","m"," ","C","a","l","m","B","o","t","."," ","I","'","m"," ","h",
      "e","r","e"," ","t","o"," ","l","i","s","t","e","n",".","\n">>
    \o <<"Y","o","u"," ","c","a","n"," ","t","y","p","e"," ","w","h","a","t","'","s"," ","o",
         "n"," ","y","o","u","r"," ","m","i","n","d",","," ","o","r"," ","s","a","y"," ","'",
         "b","r","e","a","t","h","e","'",","," ","'","g","r","o","u","n","d","'",","," ","o",
         "r"," ","'","j","o","u","r","n","a","l","'",".">>

\* a greeting that answers a returning user differently: it reads last_topics
_handle_greeting_by_history(self, text) ==
    IF \E k \in DOMAIN self.last_topics : self.last_topics[k] = "greet"
    THEN <<"greet", <<"H","i"," ","a","g","a","i","n","."," ","I","'","m"," ","h","e","r","e",
                      " ","t","o"," ","l","i","s","t","e","n",".">>>>
    ELSE <<"greet", GreetingMessage>>

_handle_greeting(self, text) == <<"greet", GreetingMessage>>

StressMessage ==
    <<"T","h","a","t"," ","s","o","u","n","d","s"," ","h","e","a","v","y","."," ","L","e","t",
      "'","s"," ","s","l","o","w"," ","t","h","i","n","g","s"," ","d","o","w","n",".","\n">>
    \o box_breathing(2, 4, FALSE)
    \o <<"\n","I","f"," ","y","o","u","'","d"," ","r","a","t","h","e","r",","," ","w","e"," ",
         "c","a","n"," ","t","r","y"," ","g","r","o","u","n","d","i","n","g","U+2014","t","y",
         "p","e"," ","'","g","r","o","u","n","d","'",".">>

_handle_stress(self, text) == <<"stress", StressMessage>>

AngerMessage ==
    <<"I"," ","h","e","a","r"," ","a"," ","l","o","t"," ","o","f"," ","e","n","e","r","g","y",
      " ","t","h","e","r","e","."," ","T","w","o"," ","q","u","i","c","k"," ","o","p","t","i",
      "o","n","s",":","\n">>
    \o <<"U+2022"," ","6","0","-","s","e","c","o","n","d"," ","b","r","e","a","t","h"," ","(",
         "t","y","p","e"," ","'","b","r","e","a","t","h","e","'",")","\n">>
    \o <<"U+2022"," ","W","r","i","t","e"," ","t","h","e"," ","u","n","f","i","l","t","e","r",
         "e","d"," ","t","h","o","u","g","h","t",","," ","t","h","e","n"," ","a"," ","k","i",
         "n","d","e","r"," ","r","e","f","r","a","m","e"," ","s","t","a","r","t","i","n","g",
         " ","w","i","t","h"," ","'","A"," ","m","o","r","e"," ","h","e","l","p","f","u","l",
         " ","w","a","y"," ","t","o"," ","s","e","e"," ","t","h","i","s"," ","m","i","g","h",
         "t"," ","b","e","U+2026","'">>

_handle_anger(self, text) == <<"anger", AngerMessage>>

SleepMessage ==
    <<"S","l","e","e","p"," ","c","a","n"," ","b","e"," ","t","o","u","g","h"," ","w","h","e",
      "n"," ","t","h","e"," ","m","i","n","d"," ","i","s"," ","b","u","s","y",".","\n">>
    \o four_seven_eight(2)
    \o <<"\n","T","i","p",":"," ","k","e","e","p"," ","l","i","g","h","t","s"," ","d","i","m",
         ","," ","p","u","t"," ","t","h","e"," ","p","h","o","n","e"," ","f","a","c","e"," ",
         "d","o","w","n"," ","a","f","t","e","r"," ","t","h","i","s",".">>

_handle_sleep(self, text) == <<"sleep", SleepMessage>>

_handle_grounding(self, text) == <<"grounding", grounding_54321>>

BreathingMessage == box_breathing(3, 4, FALSE)

_handle_breathing(self, text) == <<"breathing", BreathingMessage>>

_handle_journal(self, text) == <<"journal", mini_journal_prompt>>

HelpMessage ==
    <<"C","o","m","m","a","n","d","s",":"," ","'","b","r","e","a","t","h","e","'",","," ","'",
      "g","r","o","u","n","d","'",","," ","'","j","o","u","r","n","a","l","'",","," ","o","r",
      " ","t","e","l","l"," ","m","e"," ","h","o","w"," ","y","o","u","'","r","e"," ","f","e",
      "e","l","i","n","g","."," ","T","y","p","e"," ","'","q","u","i","t","'"," ","t","o"," ",
      "e","x","i","t",".">>

_handle_help(self, text) == <<"help", HelpMessage>>

\* handler(t) for the bound method a rule holds
call_handler(handler, self, text) ==
    CASE handler = "_handle_greeting"  -> _handle_greeting(self, text)
      [] handler = "_handle_stress"    -> _handle_stress(self, text)
      [] handler = "_handle_anger"     -> _handle_anger(self, text)
      [] handler = "_handle_sleep"     -> _handle_sleep(self, text)
      [] handler = "_handle_grounding" -> _handle_grounding(self, text)
      [] handler = "_handle_breathing" -> _handle_breathing(self, text)
      [] handler = "_handle_journal"   -> _handle_journal(self, text)
      [] handler = "_handle_help"      -> _handle_help(self, text)

\* The regex \b(i am|i'm)\s+([a-zA-Z]{2,})\b.

\* \b at position i: exactly one of t[i-1], t[i] is a word character
word_boundary(t, i) ==
    LET before == i > 1 /\ i - 1 <= Len(t) /\ is_word(t[i - 1])
        after  == i >= 1 /\ i <= Len(t) /\ is_word(t[i])
    IN  before # after

NameLiterals == <<<<"i"," ","a","m">>, <<"i","'","m">>>>

\* every way the pattern matches starting at position i: the alternative
\* taken, the number of \s and the number of letters consumed
name_matches_at(t, i) ==
    IF ~word_boundary(t, i) THEN {}
    ELSE LET alts == {a \in DOMAIN NameLiterals :
                        /\ i + Len(NameLiterals[a]) - 1 <= Len(t)
                        /\ SubSeq(t, i, i + Len(NameLiterals[a]) - 1) = NameLiterals[a]}
         IN  {m \in alts \X (1..Len(t)) \X (2..Len(t)) :
                LET ws  == i + Len(NameLiterals[m[1]])
                    wd  == ws + m[2]
                    end == wd + m[3]
                IN  /\ end - 1 <= Len(t)
                    /\ \A j \in ws..(wd - 1) : is_space(t[j])
                    /\ \A j \in wd..(end - 1) : is_alpha(t[j])
                    /\ word_boundary(t, end)}

\* the match the backtracking search reports at i: first alternative, then
\* the longest \s+, then the longest word
name_match_at(t, i) ==
    CHOOSE m \in name_matches_at(t, i) :
        \A o \in name_matches_at(t, i) :
            \/ m[1] < o[1]
            \/ m[1] = o[1] /\ m[2] > o[2]
            \/ m[1] = o[1] /\ m[2] = o[2] /\ m[3] >= o[3]

\* re.search(...): m.group(2) of the leftmost match, or None
name_search(t) ==
    LET starts == {i \in 1..Len(t) : name_matches_at(t, i) # {}}
    IN  IF starts = {} THEN None
        ELSE LET i  == CHOOSE i \in starts : \A j \in starts : i <= j
                 m  == name_match_at(t, i)
                 wd == i + Len(NameLiterals[m[1]]) + m[2]
             IN  SubSeq(t, wd, wd + m[3] - 1)

\* name capture that keeps a name once one is set
capture_name_keep_first(self, t) ==
    LET word == name_search(t)
    IN  IF word # None /\ self.name = None
        THEN [self EXCEPT !.name = capitalize(word)]
        ELSE self

\* m = re.search(...); if m: self.ctx.name = m.group(2).capitalize()
capture_name(self, t) ==
    LET word == name_search(t)
    IN  IF word # None THEN [self EXCEPT !.name = capitalize(word)] ELSE self

\* _prefix_name that returns the message as it is
_prefix_name_never(self, message) == message

_prefix_name(self, message) ==
    IF self.name # None /\ self.name # <<>>
    THEN self.name \o <<","," ">> \o message
    ELSE message

DefaultMessage ==
    <<"T","h","a","n","k","s"," ","f","o","r"," ","s","h","a","r","i","n","g","."," ","I","'",
      "m"," ","h","e","r","e"," ","w","i","t","h"," ","y","o","u","."," ","W","o","u","l","d",
      " ","y","o","u"," ","l","i","k","e"," ","t","o"," ","t","r","y"," ","'","g","r","o","u",
      "n","d","'"," ","o","r"," ","'","b","r","e","a","t","h","e","'",","," ","o","r"," ","t",
      "e","l","l"," ","m","e"," ","m","o","r","e","?">>

\* the rule the loop would stop at if it kept the last hit, not the first
RECURSIVE last_match(_, _)
last_match(t, i) ==
    IF i > Len(handlers) THEN 0
    ELSE LET later == last_match(t, i + 1)
         IN  IF later # 0 THEN later
             ELSE IF contains_any(t, handlers[i].keys) THEN i ELSE 0

\* `for keys, handler in self.handlers: if contains_any(t, keys)`: the index
\* of the rule the loop stops at, scanning from rule i; 0 if it runs out
RECURSIVE first_match(_, _)
first_match(t, i) ==
    IF i > Len(handlers) THEN 0
    ELSE IF contains_any(t, handlers[i].keys) THEN i
    ELSE first_match(t, i + 1)

\* routing that also records an intent, "default", when no rule matches
route_logs_default(self, t) ==
    LET i == first_match(t, 1)
    IN  IF i = 0
        THEN [self |-> [self EXCEPT !.last_topics = Append(@, "default")],
              ret  |-> _prefix_name(self, DefaultMessage)]
        ELSE LET r == call_handler(handlers[i].handler, self, t)
             IN  [self |-> [self EXCEPT !.last_topics = Append(@, r[1])],
                  ret  |-> _prefix_name(self, r[2])]

\* routing that assigns last_topics = [intent] where the code appends
route_overwrites_topics(self, t) ==
    LET i == first_match(t, 1)
    IN  IF i = 0
        THEN [self |-> self, ret |-> _prefix_name(self, DefaultMessage)]
        ELSE LET r == call_handler(handlers[i].handler, self, t)
             IN  [self |-> [self EXCEPT !.last_topics = <<r[1]>>],
                  ret  |-> _prefix_name(self, r[2])]

\* The routing loop of reply and the default response after it: the
\* context left behind and the string returned.
route(self, t) ==
    LET i == first_match(t, 1)
    IN  IF i = 0
        THEN [self |-> self, ret |-> _prefix_name(self, DefaultMessage)]
        ELSE LET r == call_handler(handlers[i].handler, self, t)
             IN  [self |-> [self EXCEPT !.last_topics = Append(@, r[1])],
                  ret  |-> _prefix_name(self, r[2])]

\* reply with the name captured before the safety check
reply_capture_first(self, user_text) ==
    LET named == capture_name(self, normalize(user_text))
    IN  IF safety_check(user_text)
        THEN [self |-> named, ret |-> SAFETY_MESSAGE]
        ELSE route(named, normalize(user_text))

\* CalmBot.reply: the context left behind and the string returned
reply(self, user_text) ==
    IF safety_check(user_text)
    THEN [self |-> self, ret |-> SAFETY_MESSAGE]
    ELSE LET t == normalize(user_text)
         IN  route(capture_name(self, t), t)

---------------------------------------------------------------------------
\* The conversations: the texts a caller hands to reply, one CalmBot each.

Bots == {1, 2}

InHello          == <<"h","e","l","l","o">>
InHelloPanicking == <<"h","e","l","l","o",","," ","I","'","m"," ","p","a","n","i","c","k","i",
                      "n","g">>
InImAlex         == <<"I","'","m"," ","A","l","e","x">>
InIAmBob         == <<" ","I"," "," ","A","M","\t","B","o","b"," ">>
InAlexThenBob    == <<"i","'","m"," ","a","l","e","x"," ","i","'","m"," ","b","o","b">>
InAl3x           == <<"I","'","m"," ","A","l","3","x">>
InHiAmOk         == <<"h","i"," ","a","m"," ","o","k">>
InPurple         == <<"p","u","r","p","l","e"," ","e","l","e","p","h","a","n","t","s"," ","d",
                      "a","n","c","e">>
InThisIsBad      == <<"t","h","i","s"," ","i","s"," ","b","a","d">>
InStressed       == <<"I"," ","f","e","e","l"," ","s","t","r","e","s","s","e","d">>
InAngry          == <<"s","o"," ","a","n","g","r","y">>
InCantSleep      == <<"I"," ","c","a","n","'","t"," ","s","l","e","e","p">>
InGroundMe       == <<"g","r","o","u","n","d"," ","m","e">>
InBreathe        == <<"b","r","e","a","t","h","e">>
InJournal        == <<"j","o","u","r","n","a","l">>
InMenu           == <<"m","e","n","u">>
InSuicide        == <<"S","U","I","C","I","D","E">>
InBobCantGoOn    == <<"h","e","l","l","o"," ","I","'","m"," ","B","o","b",","," ","I"," ","c",
                      "a","n","'","t"," "," ","g","o","\t","o","n">>

Inputs ==
    {InHello, InHelloPanicking, InImAlex, InIAmBob, InAlexThenBob, InAl3x, InHiAmOk,
     InPurple, InThisIsBad, InStressed, InAngry, InCantSleep, InGroundMe, InBreathe,
     InJournal, InMenu, InSuicide, InBobCantGoOn}

PairInputs == {InHello, InImAlex, InMenu, InSuicide}

\* bot = CalmBot(): a fresh Context, nothing said yet
Init ==
    /\ ctx = [b \in Bots |-> Context]
    /\ pre = [b \in Bots |-> Context]
    /\ inputs = [b \in Bots |-> <<>>]
    /\ ret = [b \in Bots |-> <<>>]
    /\ norm_in = <<>>
    /\ norm_out = <<>>
    /\ box_in = [cycles |-> 0, seconds |-> 0, realtime |-> FALSE]
    /\ box_out = None
    /\ slept = 0

\* bot.reply(user_text) on conversation b
Reply(b, user_text) ==
    /\ LET r == reply(ctx[b], user_text)
       IN  /\ ctx' = [ctx EXCEPT ![b] = r.self]
           /\ ret' = [ret EXCEPT ![b] = r.ret]
    /\ pre' = [pre EXCEPT ![b] = ctx[b]]
    /\ inputs' = [inputs EXCEPT ![b] = Append(@, user_text)]
    /\ UNCHANGED <<norm_in, norm_out, box_in, box_out, slept>>

\* one conversation: a caller's successive reply calls on one CalmBot
Chat ==
    \E user_text \in Inputs :
        /\ Len(inputs[1]) < MaxCalls
        /\ Reply(1, user_text)

Next == Chat

Spec == Init /\ [][Next]_vars

\* two conversations, each with a CalmBot of its own
PairChat ==
    \E b \in Bots, user_text \in PairInputs :
        /\ Len(inputs[b]) < MaxPairCalls
        /\ Reply(b, user_text)

NextPair == PairChat

SpecPair == Init /\ [][NextPair]_vars

---------------------------------------------------------------------------
\* normalize applied to every short string over a small alphabet, and then
\* to its own result.

NormAlphabet == {"a", "B", " ", "\t"}

NormInputs == UNION {[1..n -> NormAlphabet] : n \in 0..MaxLen}

InitNormalize ==
    /\ ctx = [b \in Bots |-> Context]
    /\ pre = [b \in Bots |-> Context]
    /\ inputs = [b \in Bots |-> <<>>]
    /\ ret = [b \in Bots |-> <<>>]
    /\ norm_in \in NormInputs
    /\ norm_out = <<>>
    /\ box_in = [cycles |-> 0, seconds |-> 0, realtime |-> FALSE]
    /\ box_out = None
    /\ slept = 0

Normalize ==
    /\ Len(norm_out) < 2
    /\ norm_out' = Append(norm_out,
                          normalize(IF norm_out = <<>> THEN norm_in
                                    ELSE norm_out[Len(norm_out)]))
    /\ UNCHANGED <<ctx, pre, inputs, ret, norm_in, box_in, box_out, slept>>

NextNormalize == Normalize

SpecNormalize == InitNormalize /\ [][NextNormalize]_vars

---------------------------------------------------------------------------
\* box_breathing called once with each small argument triple.

InitBox ==
    /\ ctx = [b \in Bots |-> Context]
    /\ pre = [b \in Bots |-> Context]
    /\ inputs = [b \in Bots |-> <<>>]
    /\ ret = [b \in Bots |-> <<>>]
    /\ norm_in = <<>>
    /\ norm_out = <<>>
    /\ box_in \in [cycles : (-1)..MaxCycles, seconds : 0..MaxSeconds, realtime : BOOLEAN]
    /\ box_out = None
    /\ slept = 0

BoxBreathing ==
    /\ box_out = None
    /\ LET run == box_breathing_run(box_in.cycles, box_in.seconds, box_in.realtime)
       IN  /\ box_out' = run.text
           /\ slept' = slept + run.slept
    /\ UNCHANGED <<ctx, pre, inputs, ret, norm_in, norm_out, box_in>>

NextBox == BoxBreathing

SpecBox == InitBox /\ [][NextBox]_vars

---------------------------------------------------------------------------
\* Properties.  They speak about the latest reply call of a conversation b:
\* its argument is the last entry of inputs[b], pre[b] is the context it
\* started from, ctx[b] the context it left and ret[b] what it returned.

Called(b) == inputs[b] # <<>>

LastInput(b) == inputs[b][Len(inputs[b])]

\* the normalized form of the text contains one of the risk phrases
HasRiskPhrase(text) ==
    LET t == normalize(text)
    IN  \E p \in Range(RISKY_PATTERNS) : contains(t, p)

\* the rules having a keyword that occurs in the normalized text t
RuleHits(t) ==
    {i \in DOMAIN handlers : \E w \in Range(handlers[i].keys) : contains(t, w)}

\* message, personalized for a context with this name
Prefixed(name, message) ==
    IF name = None THEN message ELSE name \o <<",", " ">> \o message

StartsWith(s, p) == Len(p) <= Len(s) /\ SubSeq(s, 1, Len(p)) = p

IsPrefix(s, t) == Len(s) <= Len(t) /\ SubSeq(t, 1, Len(s)) = s

\* what kind of turn an input makes: safety-triggered, or else answered by
\* a rule's handler or by the default fallback
TurnKind(text) ==
    LET t == normalize(text)
    IN  IF \E p \in Range(RISKY_PATTERNS) : contains(t, p) THEN "safety"
        ELSE IF \E i \in DOMAIN handlers : \E w \in Range(handlers[i].keys) : contains(t, w)
        THEN "matched"
        ELSE "fallback"

\* the calls of conversation b so far that were not answered by the safety message
PlainTurns(b) == {k \in DOMAIN inputs[b] : TurnKind(inputs[b][k]) # "safety"}

\* those of them in which some rule had a hit
MatchedTurns(b) == {k \in DOMAIN inputs[b] : TurnKind(inputs[b][k]) = "matched"}

Alex == <<"A","l","e","x">>
Bob == <<"B","o","b">>

\* C1: an input whose normalized form contains a risk phrase is answered by
\* exactly the fixed safety message, in every session state: no name prefix,
\* no handler text, no fallback text, whatever else the input contains.
C1_SafetyMessageExactly ==
    \A b \in Bots :
        (Called(b) /\ HasRiskPhrase(LastInput(b))) => ret[b] = SAFETY_MESSAGE

\* A name was captured earlier; an input with a risk phrase split by a run of
\* whitespace, a greeting keyword and a name mention got the safety message.
C1_Witness ==
    /\ Called(1)
    /\ LastInput(1) = InBobCantGoOn
    /\ pre[1].name = Alex
    /\ RuleHits(normalize(LastInput(1))) # {}
    /\ ret[1] = SAFETY_MESSAGE

\* C2: a safety-triggered reply leaves the session context unchanged:
\* last_topics and the captured name are what they were before the call,
\* also when the input holds a name mention and rule keywords.
C2_SafetyLeavesContext ==
    \A b \in Bots :
        (Called(b) /\ HasRiskPhrase(LastInput(b))) =>
            /\ ctx[b].last_topics = pre[b].last_topics
            /\ ctx[b].name = pre[b].name

\* The safety-triggered input mentions "Bob" and says "hello"; the context
\* still holds the name Alex and the one topic recorded before.
C2_Witness ==
    /\ Called(1)
    /\ LastInput(1) = InBobCantGoOn
    /\ name_search(normalize(LastInput(1))) = <<"b","o","b">>
    /\ pre[1] = [name |-> Alex, last_topics |-> <<"greet">>]
    /\ ctx[1] = pre[1]

\* C3 as claimed: after any sequence of reply calls the length of last_topics
\* equals the number of non-safety turns, the turns answered by the default
\* fallback included.
C3_OneTopicPerPlainTurn ==
    \A b \in Bots : Len(ctx[b].last_topics) = Cardinality(PlainTurns(b))

\* C3 as amended: after any sequence of reply calls the length of
\* last_topics equals the number of non-safety turns in which a rule matched;
\* a turn answered by the default fallback appends nothing, and neither does
\* a safety-triggered turn.
C3_OneTopicPerMatchedTurn ==
    \A b \in Bots : Len(ctx[b].last_topics) = Cardinality(MatchedTurns(b))

\* A safety turn, a fallback turn and a matched turn have been made: one topic.
C3_Witness ==
    /\ Len(inputs[1]) = 3
    /\ Cardinality(PlainTurns(1)) = 2
    /\ Cardinality(MatchedTurns(1)) = 1
    /\ \E k \in DOMAIN inputs[1] : inputs[1][k] = InPurple
    /\ Len(ctx[1].last_topics) = 1

\* the message of producer p: rule p's handler, or the default response for 0
ProducerMessage(p, self, t) ==
    IF p = 0 THEN DefaultMessage ELSE call_handler(handlers[p].handler, self, t)[2]

\* C4: on a non-safety turn exactly one response producer runs: the handler
\* of the first rule, in declaration order, with a keyword occurring in the
\* normalized text; no later rule's handler, whatever keywords are present;
\* the fallback if and only if no rule has a hit.
C4_FirstRuleWins ==
    \A b \in Bots :
        (Called(b) /\ ~HasRiskPhrase(LastInput(b))) =>
            LET t == normalize(LastInput(b))
                hits == RuleHits(t)
                first == IF hits = {} THEN 0
                         ELSE CHOOSE i \in hits : \A j \in hits : i <= j
                ran == {p \in 0..Len(handlers) :
                          ret[b] = Prefixed(ctx[b].name, ProducerMessage(p, ctx[b], t))}
            IN  /\ ran = {first}
                /\ ctx[b].last_topics =
                      IF first = 0 THEN pre[b].last_topics
                      ELSE Append(pre[b].last_topics,
                                  call_handler(handlers[first].handler, ctx[b], t)[1])

\* "hello, I'm panicking" holds keywords of greeting and of stress and got
\* the greeting response.
C4_Witness ==
    /\ Called(1)
    /\ LastInput(1) = InHelloPanicking
    /\ {1, 2} \subseteq RuleHits(normalize(LastInput(1)))
    /\ ret[1] = <<"P","a","n","i","c","k","i","n","g",","," ">> \o GreetingMessage
    /\ ctx[1].last_topics = Append(pre[1].last_topics, "greet")

\* C5: name capture persists and the latest mention wins.  A non-safety turn
\* with a name mention sets the name to the mentioned word capitalized,
\* replacing any earlier name; a turn without one, and a safety-triggered
\* turn, leave the name as it was; a set name is never unset; and every
\* non-safety reply made while a name is set starts with "<Name>, ".
C5_NamePersists ==
    \A b \in Bots :
        Called(b) =>
            LET word == name_search(normalize(LastInput(b)))
            IN  /\ (pre[b].name # None) => (ctx[b].name # None)
                /\ HasRiskPhrase(LastInput(b)) => ctx[b].name = pre[b].name
                /\ ~HasRiskPhrase(LastInput(b)) =>
                      /\ ctx[b].name = (IF word = None THEN pre[b].name ELSE capitalize(word))
                      /\ (ctx[b].name # None) =>
                            StartsWith(ret[b], ctx[b].name \o <<",", " ">>)

\* "I'm Alex", then a greeting answered with the prefix "Alex, ", then
\* " I  AM<tab>Bob ": the name is now Bob and the reply starts with "Bob, ".
C5_Witness ==
    /\ inputs[1] = <<InImAlex, InHello, InIAmBob>>
    /\ pre[1].name = Alex
    /\ ctx[1].name = Bob
    /\ StartsWith(ret[1], <<"B","o","b",","," ">>)

\* C6: a non-safety input in which no rule keyword occurs gets the default
\* fallback text: exactly that text when no name is set, and that text
\* prefixed by "<Name>, " when a name is set.
C6_FallbackText ==
    \A b \in Bots :
        (/\ Called(b)
         /\ ~HasRiskPhrase(LastInput(b))
         /\ RuleHits(normalize(LastInput(b))) = {}) =>
            ret[b] = (IF ctx[b].name = None THEN DefaultMessage
                      ELSE ctx[b].name \o <<",", " ">> \o DefaultMessage)

\* "purple elephants dance" said after "I'm Alex": the prefixed fallback.
C6_Witness ==
    /\ inputs[1] = <<InImAlex, InPurple>>
    /\ ret[1] = <<"A","l","e","x",","," ">> \o DefaultMessage

\* C7: normalize is idempotent: normalize(normalize(x)) = normalize(x).
C7_NormalizeIdempotent ==
    Len(norm_out) = 2 => norm_out[2] = norm_out[1]

\* A string with leading whitespace, an upper-case letter and a run of
\* whitespace has been normalized twice.
C7_Witness ==
    /\ norm_in = <<"\t","B"," ","\t","a">>
    /\ norm_out = <<<<"b"," ","a">>, <<"b"," ","a">>>>

\* the number of occurrences of w in text
CountOccurrences(text, w) ==
    Cardinality({i \in 1..(Len(text) - Len(w) + 1) : SubSeq(text, i, i + Len(w) - 1) = w})

\* str.split("\n")
RECURSIVE SplitLines(_)
SplitLines(text) ==
    IF \A i \in DOMAIN text : text[i] # "\n" THEN <<text>>
    ELSE LET i == CHOOSE i \in DOMAIN text :
                    text[i] = "\n" /\ \A j \in 1..(i - 1) : text[j] # "\n"
         IN  <<SubSeq(text, 1, i - 1)>> \o SplitLines(SubSeq(text, i + 1, Len(text)))

StepNames == <<<<"I","n","h","a","l","e">>, <<"H","o","l","d">>, <<"E","x","h","a","l","e">>, <<"H","o","l","d">>>>

\* C8: for cycles >= 0 and realtime false, box_breathing returns a text with
\* exactly `cycles` occurrences of "Cycle" and exactly 4 * cycles step lines,
\* Inhale, Hold, Exhale, Hold after each cycle's heading, and does not sleep.
C8_BoxBreathingShape ==
    (box_out # None /\ box_in.cycles >= 0 /\ ~box_in.realtime) =>
        LET lines == SplitLines(box_out)
            steps == {k \in DOMAIN lines : StartsWith(lines[k], <<" ", " ">>)}
        IN  /\ CountOccurrences(box_out, <<"C","y","c","l","e">>) = box_in.cycles
            /\ Cardinality(steps) = 4 * box_in.cycles
            /\ Len(lines) = 5 * box_in.cycles + 2
            /\ \A c \in 1..box_in.cycles :
                  /\ StartsWith(lines[5 * c - 3], <<"C","y","c","l","e">>)
                  /\ \A k \in 1..4 :
                        /\ (5 * c - 3 + k) \in steps
                        /\ StartsWith(lines[5 * c - 3 + k],
                                      <<" ", " ">> \o StepNames[k] \o <<" ","f","o","r"," ">>)
            /\ slept = 0

\* box_breathing(2, 4, False) has returned: 2 "Cycle", 8 step lines.
C8_Witness ==
    /\ box_in = [cycles |-> 2, seconds |-> 4, realtime |-> FALSE]
    /\ box_out # None
    /\ CountOccurrences(box_out, <<"C","y","c","l","e">>) = 2
    /\ Cardinality({k \in DOMAIN SplitLines(box_out) :
                       StartsWith(SplitLines(box_out)[k], <<" ", " ">>)}) = 8

\* C9: last_topics is append-only: the history before a call is a prefix of
\* the history after it, and an entry appended on a turn is the intent tag
\* of the rule handler that produced that turn's message.
C9_TopicsAppendOnly ==
    \A b \in Bots :
        Called(b) =>
            /\ IsPrefix(pre[b].last_topics, ctx[b].last_topics)
            /\ Len(ctx[b].last_topics) <= Len(pre[b].last_topics) + 1
            /\ Len(ctx[b].last_topics) = Len(pre[b].last_topics) + 1 =>
                  \E i \in DOMAIN handlers :
                      LET r == call_handler(handlers[i].handler, ctx[b],
                                            normalize(LastInput(b)))
                      IN  /\ ctx[b].last_topics[Len(ctx[b].last_topics)] = r[1]
                          /\ ret[b] = Prefixed(ctx[b].name, r[2])

\* A third topic has been appended behind two different earlier ones.
C9_Witness ==
    /\ pre[1].last_topics = <<"greet", "sleep">>
    /\ ctx[1].last_topics = <<"greet", "sleep", "help">>
    /\ ret[1] = HelpMessage

\* C10: the text reply returns depends on the input and the captured name
\* only, never on last_topics: two conversations that held the same name and
\* got the same input returned the same text and hold the same name after.
C10_ReplyIgnoresTopics ==
    \A b1 \in Bots, b2 \in Bots :
        (/\ Called(b1) /\ Called(b2)
         /\ LastInput(b1) = LastInput(b2)
         /\ pre[b1].name = pre[b2].name) =>
            /\ ret[b1] = ret[b2]
            /\ ctx[b1].name = ctx[b2].name

\* Both conversations held the name Alex and were greeted, one with a topic
\* already recorded and one with none.
C10_Witness ==
    /\ Called(1) /\ Called(2)
    /\ LastInput(1) = InHello /\ LastInput(2) = InHello
    /\ pre[1] = [name |-> Alex, last_topics |-> <<"greet">>]
    /\ pre[2] = [name |-> Alex, last_topics |-> <<>>]
    /\ ret[1] = ret[2]

=============================================================================
